---- MODULE Spec2Model ----
(***************************************************************************)
(* The DuckDB store (packages/core/src/duckdb/duckdbStore.ts): one shared  *)
(* WASM engine, per-viewer connections, de-duplicated file loads, usage    *)
(* tracking and the shared publication slot.                               *)
(*                                                                         *)
(* The store runs on a single-threaded event loop.  Every action below is  *)
(* one synchronous run of store code: from a call (or from the settling of *)
(* the promise a caller awaits) up to the next await.  The engine, its     *)
(* worker and the network are the environment: a request to them settles   *)
(* in a later action, with success or failure chosen nondeterministically. *)
(***************************************************************************)
EXTENDS Naturals, Sequences, FiniteSets

\* ---------------------------------------------------------------- bounds

\* Total number of store operations the callers start in one behaviour.
MaxCalls == 4

\* Total number of network / engine requests that fail in one behaviour.
MaxFaults == 1

\* Concurrent callers (components awaiting a store operation).
Tasks == {"t1", "t2"}

\* Viewer / connection identifiers the callers supply.
Viewers == {"v1", "v2"}

\* Publication names.
Names == {"n1", "n2"}

\* loadFile inputs <<fileUrl, fileType, tableName, fileId>>; fileId "" is the
\* omitted (null) argument.  The first two share a fileId and differ in url,
\* kind and table name; the last two share a table name under different keys.
LoadInputs ==
    { <<"u1", "csv",     "tA", "f1">>,
      <<"u2", "parquet", "tB", "f1">>,
      <<"u2", "parquet", "tA", "">>,
      <<"u1", "json",    "tA", "f1">> }

TableNames == {"tA", "tB"}

\* The loadFile calls of the loading scenario: input and viewerId.
LoadCalls ==
    { <<<<"u1", "csv",     "tA", "f1">>, "v1">>,
      <<<<"u2", "parquet", "tB", "f1">>, "v2">>,
      <<<<"u2", "parquet", "tA", "">>,   "v2">>,
      <<<<"u2", "parquet", "tA", "">>,   "">> }

\* ----------------------------------------------------------------- state

VARIABLES
    db,               \* db.value: 0 (null) or the id of the AsyncDuckDB object
    isInitialized,    \* isInitialized.value
    isInitializing,   \* isInitializing.value
    initError,        \* initError.value ("" when empty)
    initPromise,      \* initPromise: 0 (null) or the id of the attempt's promise
    loadedFiles,      \* loadedFiles.value: key -> entry, NoFile when absent
    connections,      \* connections.value: id -> native connection, 0 when absent
    fileUsage,        \* fileUsage.value: key -> set of viewers, NoUsage when absent
    sharedResultName, \* sharedResultName.value ("" is null)
    sharedVersion,    \* sharedVersion.value
    promises,         \* the init attempts (the async IIFE of initDuckDB), by id
    engines,          \* every AsyncDuckDB/Worker constructed so far, by id
    natives,          \* every native connection the engine has opened, by id
    tables,           \* the engine's catalog: table name -> url whose data it holds
    leaked,           \* temporary connections left open by a call that has settled
    task,             \* each caller's operation in flight, its position and result
    calls,            \* operations started so far
    faults,           \* network / engine requests that have failed so far
    published         \* names whose CREATE OR REPLACE statement has succeeded, in order

storeVars == <<db, isInitialized, isInitializing, initError, initPromise,
               loadedFiles, connections, fileUsage, sharedResultName, sharedVersion>>
envVars == <<promises, engines, natives, tables, leaked>>
vars == <<db, isInitialized, isInitializing, initError, initPromise,
          loadedFiles, connections, fileUsage, sharedResultName, sharedVersion,
          promises, engines, natives, tables, leaked, task, calls, faults, published>>

NoFile == [state |-> "absent"]
NoUsage == {"<absent>"}
NoTable == "<none>"

\* stableKey of loadFile: fileId || fileUrl
stableKey(fileId, fileUrl) == IF fileId # "" THEN fileId ELSE fileUrl

Keys == { stableKey(i[4], i[1]) : i \in LoadInputs }

\* fileName of loadFile: `${fileId || tableName}.${fileType}`
fileName(fileId, tableName, fileType) ==
    <<IF fileId # "" THEN fileId ELSE tableName, fileType>>

Idle ==
    [pc |-> "idle", op |-> "none", id |-> "", name |-> "", args |-> <<>>,
     key |-> "", att |-> 0, h |-> 0, nc |-> 0, tc |-> "none", res |-> "",
     seen |-> {}, sent |-> FALSE, fetched |-> FALSE, tracked |-> FALSE, prev |-> "",
     stale |-> FALSE]

Init ==
    /\ db = 0
    /\ isInitialized = FALSE
    /\ isInitializing = FALSE
    /\ initError = ""
    /\ initPromise = 0
    /\ loadedFiles = [k \in Keys |-> NoFile]
    /\ connections = [v \in Viewers |-> 0]
    /\ fileUsage = [k \in Keys |-> NoUsage]
    /\ sharedResultName = ""
    /\ sharedVersion = 0
    /\ promises = <<>>
    /\ engines = <<>>
    /\ natives = <<>>
    /\ tables = [n \in TableNames |-> NoTable]
    /\ leaked = 0
    /\ task = [t \in Tasks |-> Idle]
    /\ calls = 0
    /\ faults = 0
    /\ published = <<>>

\* --------------------------------------------------------------- getters

\* isReady = isInitialized && !initError
isReady == isInitialized /\ initError = ""

\* isFileLoaded(fileId) and the same test in loadFile: the entry exists, is not
\* loading and has a falsy error.
EntryReady(e) == e # NoFile /\ ~e.isLoading /\ e.error = ""

isFileLoaded(k) == EntryReady(loadedFiles[k])

\* The loading state an entry stands for.
EntryState(e) ==
    IF e = NoFile THEN "absent"
    ELSE IF e.isLoading THEN "pending"
    ELSE IF e.error = "" THEN "ready"
    ELSE "failed"

\* The engine behind a handle answers requests only once instantiate has
\* finished and until the worker is terminated.
EngineUp(e) == e # 0 /\ engines[e] = "ready"

CanStart(t) == task[t].pc \in {"idle", "done"} /\ calls < MaxCalls

Set(t, rec) == task' = [task EXCEPT ![t] = rec]

\* The operation has settled: its result (and what the checks read of the
\* call) is kept, its locals are dropped.
Done(rec, result) ==
    [Idle EXCEPT !.pc = "done", !.op = rec.op, !.id = rec.id, !.key = rec.key,
                 !.name = rec.name, !.res = result,
                 !.h = IF rec.op = "init" THEN rec.h ELSE 0,
                 !.nc = IF rec.op = "create" THEN rec.nc ELSE 0,
                 !.sent = rec.sent, !.fetched = rec.fetched,
                 !.tracked = rec.tracked, !.prev = rec.prev]

\* A request to the network or the engine may fail while the fault budget lasts.
Fault == faults < MaxFaults /\ faults' = faults + 1

\* ------------------------------------------------------------ initDuckDB

\* initDuckDB without the `if (initPromise)` branch: a caller that finds no
\* handle starts an attempt of its own.
InitDuckDB_NoPromiseCheck(t, rec) ==
    IF db # 0 THEN
        /\ Set(t, IF rec.op = "init"
                  THEN Done([rec EXCEPT !.h = db], "ok")
                  ELSE [rec EXCEPT !.pc = "init_returned", !.h = db])
        /\ UNCHANGED <<isInitializing, initError, initPromise, promises>>
    ELSE
        /\ isInitializing' = TRUE
        /\ initError' = ""
        /\ promises' = Append(promises, [state |-> "loading", eng |-> 0])
        /\ initPromise' = Len(promises) + 1
        /\ Set(t, [rec EXCEPT !.pc = "init_wait", !.att = Len(promises) + 1])

\* initDuckDB as entered by caller t (directly, or from createConnection or
\* loadFile), up to its first await.  In the browser the SSR guard never fires.
\*   db.value set      -> return db.value
\*   initPromise set   -> await initPromise
\*   otherwise         -> start the attempt and await it
InitDuckDB(t, rec) ==
    IF db # 0 THEN
        /\ Set(t, IF rec.op = "init"
                  THEN Done([rec EXCEPT !.h = db], "ok")
                  ELSE [rec EXCEPT !.pc = "init_returned", !.h = db])
        /\ UNCHANGED <<isInitializing, initError, initPromise, promises>>
    ELSE IF initPromise # 0 THEN
        /\ Set(t, [rec EXCEPT !.pc = "init_wait", !.att = initPromise])
        /\ UNCHANGED <<isInitializing, initError, initPromise, promises>>
    ELSE
        /\ isInitializing' = TRUE
        /\ initError' = ""
        /\ promises' = Append(promises, [state |-> "loading", eng |-> 0])
        /\ initPromise' = Len(promises) + 1
        /\ Set(t, [rec EXCEPT !.pc = "init_wait", !.att = Len(promises) + 1])

\* The attempt's import() and selectBundle() have resolved: the worker and the
\* AsyncDuckDB object are constructed, db.value is set, instantiate is awaited.
AttemptLoaded(a) ==
    /\ promises[a].state = "loading"
    /\ engines' = Append(engines, "constructed")
    /\ db' = Len(engines) + 1
    /\ promises' = [promises EXCEPT ![a] = [state |-> "instantiating", eng |-> Len(engines) + 1]]
    /\ UNCHANGED <<isInitialized, isInitializing, initError, initPromise, loadedFiles,
                   connections, fileUsage, sharedResultName, sharedVersion, natives,
                   tables, leaked, task, calls, faults, published>>

\* instantiate has resolved: isInitialized is set, the attempt returns db.value,
\* the finally block clears isInitializing and initPromise.
AttemptInstantiated(a) ==
    /\ promises[a].state = "instantiating"
    /\ engines' = [engines EXCEPT ![promises[a].eng] = IF @ = "constructed" THEN "ready" ELSE @]
    /\ isInitialized' = TRUE
    /\ isInitializing' = FALSE
    /\ initPromise' = 0
    /\ promises' = [promises EXCEPT ![a].state = "resolved"]
    /\ UNCHANGED <<db, initError, loadedFiles, connections, fileUsage, sharedResultName,
                   sharedVersion, natives, tables, leaked, task, calls, faults, published>>

\* import, selectBundle or instantiate has rejected: the catch block records
\* initError and clears db.value, the finally block clears isInitializing and
\* initPromise, and the attempt's promise rejects.
AttemptFailed(a) ==
    /\ Fault
    /\ promises[a].state \in {"loading", "instantiating"}
    /\ initError' = "Failed to initialize DuckDB"
    /\ db' = 0
    /\ isInitializing' = FALSE
    /\ initPromise' = 0
    /\ promises' = [promises EXCEPT ![a].state = "rejected"]
    /\ UNCHANGED <<isInitialized, loadedFiles, connections, fileUsage, sharedResultName,
                   sharedVersion, engines, natives, tables, leaked, task, calls, published>>

\* ------------------------------------------------------ createConnection

\* createConnection after its initialization step: db.value.connect() is called.
\* A null db.value throws a TypeError.
CreateConnect(t, rec) ==
    Set(t, IF db = 0
           THEN Done(rec, "TypeError")
           ELSE [rec EXCEPT !.pc = "create_connecting", !.h = db, !.sent = TRUE])

\* createConnection(viewerId) up to its first await.
StartCreate(t, v) ==
    /\ CanStart(t)
    /\ calls' = calls + 1
    /\ LET rec == [Idle EXCEPT !.op = "create", !.id = v] IN
         IF db = 0
         THEN InitDuckDB(t, rec)
         ELSE /\ CreateConnect(t, rec)
              /\ UNCHANGED <<isInitializing, initError, initPromise, promises>>
    /\ UNCHANGED <<db, isInitialized, loadedFiles, connections, fileUsage,
                   sharedResultName, sharedVersion, engines, natives, tables, leaked, faults, published>>

\* The place of a registered id in the insertion order of the registry Map:
\* `set` on a new key appends it, `set` on a key that is present keeps its
\* place, a key deleted and set again is appended anew.
Slot(v) == natives[connections[v]].at

\* connect() has resolved: the connection is registered under the viewer id.
CreateConnected(t) ==
    /\ task[t].pc = "create_connecting"
    /\ EngineUp(task[t].h)
    /\ natives' = Append(natives, [eng |-> task[t].h, open |-> TRUE,
                                   at |-> IF connections[task[t].id] # 0
                                          THEN Slot(task[t].id)
                                          ELSE Len(natives) + 1])
    /\ connections' = [connections EXCEPT ![task[t].id] = Len(natives) + 1]
    /\ Set(t, Done([task[t] EXCEPT !.nc = Len(natives) + 1], "ok"))
    /\ UNCHANGED <<db, isInitialized, isInitializing, initError, initPromise, loadedFiles,
                   fileUsage, sharedResultName, sharedVersion, promises, engines, tables, leaked,
                   calls, faults, published>>

\* connect() has rejected: the error reaches the caller.
CreateConnectFailed(t) ==
    /\ Fault
    /\ task[t].pc = "create_connecting"
    /\ Set(t, Done(task[t], "EngineError"))
    /\ UNCHANGED <<storeVars, envVars, calls, published>>

\* initDuckDB() called directly.
StartInit(t) ==
    /\ CanStart(t)
    /\ calls' = calls + 1
    /\ InitDuckDB(t, [Idle EXCEPT !.op = "init"])
    /\ UNCHANGED <<db, isInitialized, loadedFiles, connections, fileUsage,
                   sharedResultName, sharedVersion, engines, natives, tables, leaked, faults, published>>

\* ------------------------------------------------------- closeConnection

\* cleanupViewerFileUsage leaving every usage set as it is.
cleanupViewerFileUsage_Noop(usage, viewerId) == usage

\* cleanupViewerFileUsage: remove the viewer from every usage set.
cleanupViewerFileUsage(usage, viewerId) ==
    [k \in Keys |-> IF usage[k] = NoUsage THEN NoUsage ELSE usage[k] \ {viewerId}]

\* trackFileUsage: create the set when missing, add the viewer.
trackFileUsage(usage, fileId, viewerId) ==
    [usage EXCEPT ![fileId] = (IF @ = NoUsage THEN {} ELSE @) \cup {viewerId}]

\* cleanupViewerFileUsage(viewerId) called directly (it is a public action
\* of the store): synchronous, touches the usage sets only.
CleanupViewerFileUsageCall(v) ==
    /\ calls < MaxCalls
    /\ calls' = calls + 1
    /\ fileUsage' = cleanupViewerFileUsage(fileUsage, v)
    /\ UNCHANGED <<db, isInitialized, isInitializing, initError, initPromise, loadedFiles,
                   connections, sharedResultName, sharedVersion, envVars, task, faults,
                   published>>

\* trackFileUsage(fileId, viewerId) called directly (a public action too).
TrackFileUsageCall(k, v) ==
    /\ calls < MaxCalls
    /\ calls' = calls + 1
    /\ fileUsage' = trackFileUsage(fileUsage, k, v)
    /\ UNCHANGED <<db, isInitialized, isInitializing, initError, initPromise, loadedFiles,
                   connections, sharedResultName, sharedVersion, envVars, task, faults,
                   published>>

\* closeConnection that throws for an id missing from the registry.
StartClose_ThrowsUnknown(t, v) ==
    /\ CanStart(t)
    /\ calls' = calls + 1
    /\ LET rec == [Idle EXCEPT !.op = "close", !.id = v] IN
         Set(t, IF connections[v] = 0
                THEN Done(rec, "ConnectionNotFound")
                ELSE [rec EXCEPT !.pc = "close_closing", !.nc = connections[v], !.sent = TRUE])
    /\ UNCHANGED <<storeVars, envVars, faults, published>>

\* closeConnection(connectionId) up to its await: unknown id is a no-op.
StartClose(t, v) ==
    /\ CanStart(t)
    /\ calls' = calls + 1
    /\ LET rec == [Idle EXCEPT !.op = "close", !.id = v] IN
         Set(t, IF connections[v] = 0
                THEN Done(rec, "ok")
                ELSE [rec EXCEPT !.pc = "close_closing", !.nc = connections[v], !.sent = TRUE])
    /\ UNCHANGED <<storeVars, envVars, faults, published>>

\* closeConnection(id) returns to its caller: the record of the call settles.
\* History only: a loadFile of the same id that is still in flight is marked
\* as having seen its consumer's connection closed.
CloseReturns(t) ==
    task' = [u \in Tasks |->
                IF u = t THEN Done(task[t], "ok")
                ELSE IF /\ task[u].op = "load" /\ task[u].id = task[t].id
                        /\ task[u].pc \notin {"idle", "done"}
                     THEN [task[u] EXCEPT !.stale = TRUE]
                     ELSE task[u]]

\* closeConnection that clears the whole registry instead of deleting its id.
CloseClosed_ClearsRegistry(t) ==
    /\ task[t].pc = "close_closing"
    /\ EngineUp(natives[task[t].nc].eng)
    /\ natives' = [natives EXCEPT ![task[t].nc].open = FALSE]
    /\ connections' = [v \in Viewers |-> 0]
    /\ fileUsage' = cleanupViewerFileUsage(fileUsage, task[t].id)
    /\ CloseReturns(t)
    /\ UNCHANGED <<db, isInitialized, isInitializing, initError, initPromise, loadedFiles,
                   sharedResultName, sharedVersion, promises, engines, tables, leaked, calls,
                   faults, published>>

\* connection.close() has resolved: the id leaves the registry and every usage set.
CloseClosed(t) ==
    /\ task[t].pc = "close_closing"
    /\ EngineUp(natives[task[t].nc].eng)
    /\ natives' = [natives EXCEPT ![task[t].nc].open = FALSE]
    /\ connections' = [connections EXCEPT ![task[t].id] = 0]
    /\ fileUsage' = cleanupViewerFileUsage(fileUsage, task[t].id)
    /\ CloseReturns(t)
    /\ UNCHANGED <<db, isInitialized, isInitializing, initError, initPromise, loadedFiles,
                   sharedResultName, sharedVersion, promises, engines, tables, leaked, calls,
                   faults, published>>

\* connection.close() has rejected: closeConnection throws before touching the registry.
CloseFailed(t) ==
    /\ Fault
    /\ task[t].pc = "close_closing"
    /\ Set(t, Done(task[t], "EngineError"))
    /\ UNCHANGED <<storeVars, envVars, calls, published>>

\* -------------------------------------------------------------- loadFile

PendingEntry(inp) ==
    [tableName |-> inp[3], fileType |-> inp[2], fileUrl |-> inp[1],
     isLoading |-> TRUE, error |-> "", rowCount |-> "unknown"]

ReadyEntry(inp, rows) ==
    [tableName |-> inp[3], fileType |-> inp[2], fileUrl |-> inp[1],
     isLoading |-> FALSE, error |-> "", rowCount |-> rows]

FailedEntry(inp, message) ==
    [tableName |-> inp[3], fileType |-> inp[2], fileUrl |-> inp[1],
     isLoading |-> FALSE, error |-> message, rowCount |-> "unknown"]

\* loadFile from "Set loading state" to the fetch call: the entry is written
\* as loading and fetch(fileUrl) is awaited.
LoadBegin(t, rec) ==
    /\ loadedFiles' = [loadedFiles EXCEPT ![rec.key] = PendingEntry(rec.args)]
    /\ Set(t, [rec EXCEPT !.pc = "load_fetching", !.fetched = TRUE])

\* The outer catch of loadFile re-throwing without recording the failure.
LoadCatch_NotRecorded(t, rec, message) ==
    /\ UNCHANGED loadedFiles
    /\ Set(t, Done(rec, message))

\* A thrown value on which `.message` can be read and is empty or undefined:
\* an Error constructed without a message, or a thrown string or plain
\* object.
NoMessageError == "NoMessageError"

\* A rejection with undefined or null: reading `.message` on it throws.
NullRejection == "NullRejection"

\* The rejections that do not carry a message.
Messageless == {NoMessageError, NullRejection}

\* err.message as the catch stores it, for a value it can be read on: thrown
\* values are named by their message, and a missing or empty message is
\* falsy in `!file.error`.
MessageOf(err) == IF err = NoMessageError THEN "" ELSE err

\* The outer catch of loadFile: the entry is written as failed with
\* err.message and the error is re-thrown.  For undefined or null the
\* evaluation of err.message throws a TypeError before the entry is
\* written: the entry stays as it was and the caller gets the TypeError.
LoadCatch(t, rec, err) ==
    IF err = NullRejection
    THEN /\ UNCHANGED loadedFiles
         /\ Set(t, Done(rec, "TypeError"))
    ELSE /\ loadedFiles' = [loadedFiles EXCEPT
                                ![rec.key] = FailedEntry(rec.args, MessageOf(err))]
         /\ Set(t, Done(rec, err))

\* loadFile without the existingFile short-circuit: every call loads.
StartLoad_NoShortCircuit(t, inp, v) ==
    /\ CanStart(t)
    /\ calls' = calls + 1
    /\ LET key == stableKey(inp[4], inp[1])
           rec == [Idle EXCEPT !.op = "load", !.id = v, !.args = inp, !.key = key,
                               !.prev = EntryState(loadedFiles[key])]
       IN  IF ~isReady THEN
               /\ InitDuckDB(t, rec)
               /\ UNCHANGED <<loadedFiles, fileUsage>>
           ELSE
               /\ LoadBegin(t, rec)
               /\ UNCHANGED <<fileUsage, isInitializing, initError, initPromise, promises>>
    /\ UNCHANGED <<db, isInitialized, connections, sharedResultName, sharedVersion,
                   engines, natives, tables, leaked, faults, published>>

\* loadFile whose short-circuit returns the caller's tableName argument
\* instead of the recorded one.
StartLoad_ReturnsRequested(t, inp, v) ==
    /\ CanStart(t)
    /\ calls' = calls + 1
    /\ LET key == stableKey(inp[4], inp[1])
           rec == [Idle EXCEPT !.op = "load", !.id = v, !.args = inp, !.key = key,
                               !.prev = EntryState(loadedFiles[key])]
       IN  IF EntryReady(loadedFiles[key]) THEN
               /\ fileUsage' = IF v # "" THEN trackFileUsage(fileUsage, key, v) ELSE fileUsage
               /\ Set(t, Done([rec EXCEPT !.name = inp[3], !.tracked = (v # "")], "ok"))
               /\ UNCHANGED <<loadedFiles, isInitializing, initError, initPromise, promises>>
           ELSE IF ~isReady THEN
               /\ InitDuckDB(t, rec)
               /\ UNCHANGED <<loadedFiles, fileUsage>>
           ELSE
               /\ LoadBegin(t, rec)
               /\ UNCHANGED <<fileUsage, isInitializing, initError, initPromise, promises>>
    /\ UNCHANGED <<db, isInitialized, connections, sharedResultName, sharedVersion,
                   engines, natives, tables, leaked, faults, published>>

\* loadFile(fileUrl, fileType, tableName, csvOptions, viewerId, fileId) up to
\* its first await.  A ready entry short-circuits: usage is tracked and the
\* recorded table name is returned.
StartLoad(t, inp, v) ==
    /\ CanStart(t)
    /\ calls' = calls + 1
    /\ LET key == stableKey(inp[4], inp[1])
           rec == [Idle EXCEPT !.op = "load", !.id = v, !.args = inp, !.key = key,
                               !.prev = EntryState(loadedFiles[key])]
       IN  IF EntryReady(loadedFiles[key]) THEN
               /\ fileUsage' = IF v # "" THEN trackFileUsage(fileUsage, key, v) ELSE fileUsage
               /\ Set(t, Done([rec EXCEPT !.name = loadedFiles[key].tableName,
                                          !.tracked = (v # "")], "ok"))
               /\ UNCHANGED <<loadedFiles, isInitializing, initError, initPromise, promises>>
           ELSE IF ~isReady THEN
               /\ InitDuckDB(t, rec)
               /\ UNCHANGED <<loadedFiles, fileUsage>>
           ELSE
               /\ LoadBegin(t, rec)
               /\ UNCHANGED <<fileUsage, isInitializing, initError, initPromise, promises>>
    /\ UNCHANGED <<db, isInitialized, connections, sharedResultName, sharedVersion,
                   engines, natives, tables, leaked, faults, published>>

\* loadFile resumes after `await initDuckDB()` returned db.value at once.
LoadResume(t) ==
    /\ task[t].pc = "init_returned"
    /\ LoadBegin(t, task[t])
    /\ UNCHANGED <<db, isInitialized, isInitializing, initError, initPromise, connections,
                   fileUsage, sharedResultName, sharedVersion, envVars, calls, faults, published>>

\* The caller resumes after `await initPromise`.  A rejected attempt throws to
\* the caller of initDuckDB, createConnection or loadFile; a resolved one lets
\* initDuckDB return db.value, createConnection call connect and loadFile
\* write its loading entry.
AfterInit(t) ==
    /\ task[t].pc = "init_wait"
    /\ promises[task[t].att].state \in {"resolved", "rejected"}
    /\ IF promises[task[t].att].state = "rejected" THEN
           /\ Set(t, Done(task[t], "InitializationError"))
           /\ UNCHANGED loadedFiles
       ELSE IF task[t].op = "init" THEN
           /\ Set(t, Done([task[t] EXCEPT !.h = db], "ok"))
           /\ UNCHANGED loadedFiles
       ELSE IF task[t].op = "create" THEN
           /\ CreateConnect(t, task[t])
           /\ UNCHANGED loadedFiles
       ELSE
           LoadBegin(t, task[t])
    /\ UNCHANGED <<db, isInitialized, isInitializing, initError, initPromise, connections,
                   fileUsage, sharedResultName, sharedVersion, envVars, calls, faults, published>>

\* fetch and the body read have resolved with response.ok:
\* db.value.registerFileBuffer is called (a null db.value throws into the catch).
LoadFetched(t) ==
    /\ task[t].pc = "load_fetching"
    /\ IF db = 0
       THEN LoadCatch(t, task[t], "TypeError")
       ELSE /\ Set(t, [task[t] EXCEPT !.pc = "load_registering", !.h = db, !.sent = TRUE])
            /\ UNCHANGED loadedFiles
    /\ UNCHANGED <<db, isInitialized, isInitializing, initError, initPromise, connections,
                   fileUsage, sharedResultName, sharedVersion, envVars, calls, faults, published>>

\* fetch rejected, the response was not ok, or the body read failed.
LoadFetchFailed(t) ==
    /\ Fault
    /\ task[t].pc = "load_fetching"
    /\ LoadCatch(t, task[t], "Failed to fetch file")
    /\ UNCHANGED <<db, isInitialized, isInitializing, initError, initPromise, connections,
                   fileUsage, sharedResultName, sharedVersion, envVars, calls, published>>

\* registerFileBuffer has resolved: db.value.connect() is called for the
\* temporary connection.
LoadRegistered(t) ==
    /\ task[t].pc = "load_registering"
    /\ EngineUp(task[t].h)
    /\ IF db = 0
       THEN LoadCatch(t, task[t], "TypeError")
       ELSE /\ Set(t, [task[t] EXCEPT !.pc = "load_connecting", !.h = db])
            /\ UNCHANGED loadedFiles
    /\ UNCHANGED <<db, isInitialized, isInitializing, initError, initPromise, connections,
                   fileUsage, sharedResultName, sharedVersion, envVars, calls, faults, published>>

\* connect() has resolved: the CREATE OR REPLACE TABLE statement is sent on the
\* temporary connection; for a file type that is neither csv nor parquet no
\* statement is sent, 'Unsupported file type' is thrown and the finally block
\* awaits tempConn.close().
LoadConnected(t) ==
    /\ task[t].pc = "load_connecting"
    /\ EngineUp(task[t].h)
    /\ Set(t, IF task[t].args[2] \in {"csv", "parquet"}
              THEN [task[t] EXCEPT !.pc = "load_creating", !.tc = "open"]
              ELSE [task[t] EXCEPT !.pc = "load_closing", !.tc = "open",
                                   !.res = "Unsupported file type"])
    /\ UNCHANGED <<storeVars, envVars, calls, faults, published>>

\* registerFileBuffer or connect has rejected: no temporary connection exists,
\* the error goes to the outer catch.
LoadEngineFailed(t) ==
    /\ Fault
    /\ task[t].pc \in {"load_registering", "load_connecting"}
    /\ LoadCatch(t, task[t], "EngineError")
    /\ UNCHANGED <<db, isInitialized, isInitializing, initError, initPromise, connections,
                   fileUsage, sharedResultName, sharedVersion, envVars, calls, published>>

\* registerFileBuffer or connect has rejected with a value that carries no
\* message: the outer catch stores err.message all the same.
LoadEngineFailedBare(t) ==
    /\ Fault
    /\ task[t].pc \in {"load_registering", "load_connecting"}
    /\ LoadCatch(t, task[t], NoMessageError)
    /\ UNCHANGED <<db, isInitialized, isInitializing, initError, initPromise, connections,
                   fileUsage, sharedResultName, sharedVersion, envVars, calls, published>>

\* registerFileBuffer or connect has rejected with undefined or null.
LoadEngineFailedNull(t) ==
    /\ Fault
    /\ task[t].pc \in {"load_registering", "load_connecting"}
    /\ LoadCatch(t, task[t], NullRejection)
    /\ UNCHANGED <<db, isInitialized, isInitializing, initError, initPromise, connections,
                   fileUsage, sharedResultName, sharedVersion, envVars, calls, published>>

\* fetch or the body read has rejected with the value err.
LoadFetchFailedWith(t, err) ==
    /\ Fault
    /\ task[t].pc = "load_fetching"
    /\ LoadCatch(t, task[t], err)
    /\ UNCHANGED <<db, isInitialized, isInitializing, initError, initPromise, connections,
                   fileUsage, sharedResultName, sharedVersion, envVars, calls, published>>

\* One of the two statements has rejected with the value err: the finally
\* block awaits tempConn.close() with the thrown value pending.
LoadStatementFailedWith(t, err) ==
    /\ Fault
    /\ task[t].pc \in {"load_creating", "load_counting"}
    /\ Set(t, [task[t] EXCEPT !.pc = "load_closing", !.res = err])
    /\ UNCHANGED <<storeVars, envVars, calls, published>>

\* tempConn.close() has rejected with the value err: it replaces the outcome
\* and goes to the outer catch.
LoadCloseFailedWith(t, err) ==
    /\ Fault
    /\ task[t].pc = "load_closing"
    /\ LoadCatch(t, [task[t] EXCEPT !.name = ""], err)
    /\ UNCHANGED <<db, isInitialized, isInitializing, initError, initPromise, connections,
                   fileUsage, sharedResultName, sharedVersion, envVars, calls, published>>

\* A registered native connection answers while it is open and its engine is up.
NativeUp(n) == n \in 1..Len(natives) /\ natives[n].open /\ EngineUp(natives[n].eng)

\* A call's temporary connection (opened on engine h) answers likewise.
TempUp(rec) == rec.tc = "open" /\ EngineUp(rec.h)

\* CREATE OR REPLACE TABLE has resolved: the table holds the fetched file; the
\* COUNT(*) probe is sent.
LoadCreated(t) ==
    /\ task[t].pc = "load_creating"
    /\ TempUp(task[t])
    /\ tables' = [tables EXCEPT ![task[t].args[3]] = task[t].args[1]]
    /\ Set(t, [task[t] EXCEPT !.pc = "load_counting"])
    /\ UNCHANGED <<storeVars, promises, engines, natives, leaked, calls, faults, published>>

\* COUNT(*) has resolved: the entry is written as ready, usage is tracked, and
\* the finally block awaits tempConn.close() before tableName is returned.
LoadCounted(t) ==
    /\ task[t].pc = "load_counting"
    /\ TempUp(task[t])
    /\ tables[task[t].args[3]] # NoTable
    /\ loadedFiles' = [loadedFiles EXCEPT
                          ![task[t].key] = ReadyEntry(task[t].args, tables[task[t].args[3]])]
    /\ fileUsage' = IF task[t].id # ""
                    THEN trackFileUsage(fileUsage, task[t].key, task[t].id)
                    ELSE fileUsage
    /\ Set(t, [task[t] EXCEPT !.pc = "load_closing", !.name = task[t].args[3],
                              !.res = "ok", !.tracked = (task[t].id # "")])
    /\ UNCHANGED <<db, isInitialized, isInitializing, initError, initPromise, connections,
                   sharedResultName, sharedVersion, envVars, calls, faults, published>>

\* One of the two statements has rejected: the finally block awaits
\* tempConn.close() with the error pending.
LoadStatementFailed(t) ==
    /\ Fault
    /\ task[t].pc \in {"load_creating", "load_counting"}
    /\ Set(t, [task[t] EXCEPT !.pc = "load_closing", !.res = "EngineError"])
    /\ UNCHANGED <<storeVars, envVars, calls, published>>

\* tempConn.close() has resolved: tableName is returned, or the pending error
\* goes to the outer catch.
LoadClosed(t) ==
    /\ task[t].pc = "load_closing"
    /\ EngineUp(task[t].h)
    /\ IF task[t].res = "ok"
       THEN /\ Set(t, Done(task[t], "ok"))
            /\ UNCHANGED loadedFiles
       ELSE LoadCatch(t, task[t], task[t].res)
    /\ UNCHANGED <<db, isInitialized, isInitializing, initError, initPromise, connections,
                   fileUsage, sharedResultName, sharedVersion, envVars, calls, faults,
                   published>>

\* tempConn.close() has rejected: its error replaces the outcome and goes to
\* the outer catch.
LoadCloseFailed(t) ==
    /\ Fault
    /\ task[t].pc = "load_closing"
    /\ LoadCatch(t, [task[t] EXCEPT !.name = ""], "EngineError")
    /\ UNCHANGED <<db, isInitialized, isInitializing, initError, initPromise, connections,
                   fileUsage, sharedResultName, sharedVersion, envVars, calls, published>>

\* The engine behind handle e will never answer: its worker was terminated,
\* or its instantiate has rejected.
EngineGone(e) ==
    /\ e # 0
    /\ \/ engines[e] = "terminated"
       \/ \E a \in 1..Len(promises) : promises[a].eng = e /\ promises[a].state = "rejected"

\* An engine request of loadFile (registerFileBuffer, connect, a statement
\* or close) made to an engine that will never answer settles by rejecting:
\* a rejected statement leads to the finally block, which awaits
\* tempConn.close() with the error pending; the other rejections go to the
\* outer catch.
LoadEngineGone(t) ==
    /\ task[t].pc \in {"load_registering", "load_connecting", "load_creating",
                       "load_counting", "load_closing"}
    /\ EngineGone(task[t].h)
    /\ IF task[t].pc \in {"load_creating", "load_counting"}
       THEN /\ Set(t, [task[t] EXCEPT !.pc = "load_closing", !.res = "EngineError"])
            /\ UNCHANGED loadedFiles
       ELSE LoadCatch(t, [task[t] EXCEPT !.name = ""], "EngineError")
    /\ UNCHANGED <<db, isInitialized, isInitializing, initError, initPromise, connections,
                   fileUsage, sharedResultName, sharedVersion, envVars, calls, faults,
                   published>>

\* ------------------------------------------------------------ unloadFile

\* The end of unloadFile without `fileUsage.value.delete(fileId)`.
UnloadDelete_KeepsUsage(t, rec) ==
    /\ loadedFiles' = [loadedFiles EXCEPT ![rec.key] = NoFile]
    /\ fileUsage' = fileUsage
    /\ Set(t, Done(rec, "ok"))

\* The end of unloadFile: both entries of the key are deleted.
UnloadDelete(t, rec) ==
    /\ loadedFiles' = [loadedFiles EXCEPT ![rec.key] = NoFile]
    /\ fileUsage' = [fileUsage EXCEPT ![rec.key] = NoUsage]
    /\ Set(t, Done(rec, "ok"))

\* unloadFile(fileId) up to its first await.  With an entry, a temporary
\* connection is requested (a null db.value throws into the catch, which only
\* warns); without one the deletes run at once.
StartUnload(t, k) ==
    /\ CanStart(t)
    /\ calls' = calls + 1
    /\ LET rec == [Idle EXCEPT !.op = "unload", !.key = k] IN
         IF loadedFiles[k] # NoFile /\ db # 0
         THEN /\ Set(t, [rec EXCEPT !.pc = "unload_connecting", !.h = db,
                                    !.name = loadedFiles[k].tableName, !.sent = TRUE])
              /\ UNCHANGED <<loadedFiles, fileUsage>>
         ELSE UnloadDelete(t, rec)
    /\ UNCHANGED <<db, isInitialized, isInitializing, initError, initPromise, connections,
                   sharedResultName, sharedVersion, envVars, faults, published>>

\* connect() has resolved: DROP TABLE IF EXISTS is sent.
UnloadConnected(t) ==
    /\ task[t].pc = "unload_connecting"
    /\ EngineUp(task[t].h)
    /\ Set(t, [task[t] EXCEPT !.pc = "unload_dropping", !.tc = "open"])
    /\ UNCHANGED <<storeVars, envVars, calls, faults, published>>

\* DROP TABLE IF EXISTS has resolved: tempConn.close() is awaited.
UnloadDropped(t) ==
    /\ task[t].pc = "unload_dropping"
    /\ TempUp(task[t])
    /\ tables' = [tables EXCEPT ![task[t].name] = NoTable]
    /\ Set(t, [task[t] EXCEPT !.pc = "unload_closing"])
    /\ UNCHANGED <<storeVars, promises, engines, natives, leaked, calls, faults, published>>

\* tempConn.close() has resolved: the entries are deleted.
UnloadClosed(t) ==
    /\ task[t].pc = "unload_closing"
    /\ EngineUp(task[t].h)
    /\ UnloadDelete(t, task[t])
    /\ UNCHANGED <<db, isInitialized, isInitializing, initError, initPromise, connections,
                   sharedResultName, sharedVersion, envVars, calls, faults, published>>

\* connect, the DROP statement or close has rejected: the catch warns and the
\* entries are deleted all the same.  After a failed DROP close() is never
\* called: the temporary connection stays open.
UnloadEngineFailed(t) ==
    /\ Fault
    /\ task[t].pc \in {"unload_connecting", "unload_dropping", "unload_closing"}
    /\ leaked' = IF task[t].pc = "unload_dropping" THEN leaked + 1 ELSE leaked
    /\ UnloadDelete(t, task[t])
    /\ UNCHANGED <<db, isInitialized, isInitializing, initError, initPromise, connections,
                   sharedResultName, sharedVersion, promises, engines, natives, tables,
                   calls, published>>

\* ---------------------------------------------------------- executeQuery

\* executeQuery that suspends between the registry lookup and the native
\* query call: the statement is not handed over in the step of the call.
ExecuteQuery_Deferred(t, v) ==
    LET rec == [Idle EXCEPT !.op = "query", !.id = v] IN
    Set(t, IF connections[v] = 0
           THEN Done(rec, "ConnectionNotFound")
           ELSE [rec EXCEPT !.pc = "query_lookup", !.nc = connections[v]])

\* executeQuery without the `if (!connData) throw`: the statement is sent on
\* whatever the registry lookup gave.
ExecuteQuery_NoLookup(t, v) ==
    LET rec == [Idle EXCEPT !.op = "query", !.id = v] IN
    Set(t, [rec EXCEPT !.pc = "query_running", !.nc = connections[v], !.sent = TRUE])

\* executeQuery(query, connectionId) up to its await: an id missing from the
\* registry throws "Connection not found", otherwise the statement is sent on
\* the registered native connection.
ExecuteQuery(t, v) ==
    LET rec == [Idle EXCEPT !.op = "query", !.id = v] IN
    Set(t, IF connections[v] = 0
           THEN Done(rec, "ConnectionNotFound")
           ELSE [rec EXCEPT !.pc = "query_running", !.nc = connections[v], !.sent = TRUE])

StartQuery(t, v) ==
    /\ CanStart(t)
    /\ calls' = calls + 1
    /\ ExecuteQuery(t, v)
    /\ UNCHANGED <<storeVars, envVars, faults, published>>

\* connection.query has resolved: the rows are returned.
QueryReturned(t) ==
    /\ task[t].pc = "query_running"
    /\ NativeUp(task[t].nc)
    /\ Set(t, Done(task[t], "ok"))
    /\ UNCHANGED <<storeVars, envVars, calls, faults, published>>

\* connection.query has rejected: the engine's error reaches the caller.
QueryFailed(t) ==
    /\ Fault
    /\ task[t].pc = "query_running"
    /\ Set(t, Done(task[t], "QueryExecutionError"))
    /\ UNCHANGED <<storeVars, envVars, calls, published>>

\* ----------------------------------------------------------- publication

\* publishViewFromQuery / publishTableFromQuery up to the await: the same
\* registry lookup, then CREATE OR REPLACE VIEW / TABLE is sent.
PublishFromQuery(t, kind, n, v) ==
    LET rec == [Idle EXCEPT !.op = kind, !.id = v, !.name = n] IN
    Set(t, IF connections[v] = 0
           THEN Done(rec, "ConnectionNotFound")
           ELSE [rec EXCEPT !.pc = "publish_running", !.nc = connections[v], !.sent = TRUE])

StartPublishView(t, n, v) ==
    /\ CanStart(t)
    /\ calls' = calls + 1
    /\ PublishFromQuery(t, "publishView", n, v)
    /\ UNCHANGED <<storeVars, envVars, faults, published>>

StartPublishTable(t, n, v) ==
    /\ CanStart(t)
    /\ calls' = calls + 1
    /\ PublishFromQuery(t, "publishTable", n, v)
    /\ UNCHANGED <<storeVars, envVars, faults, published>>

\* The tail of a publication without `sharedVersion.value++`.
PublishSlot_NoBump(t) ==
    /\ sharedResultName' = task[t].name
    /\ sharedVersion' = sharedVersion
    /\ Set(t, Done(task[t], "ok"))

\* The two assignments after the awaited statement:
\* sharedResultName.value = name; sharedVersion.value++
PublishSlot(t) ==
    /\ sharedResultName' = task[t].name
    /\ sharedVersion' = sharedVersion + 1
    /\ Set(t, Done(task[t], "ok"))

\* The CREATE OR REPLACE statement has resolved: the slot is updated.
Published(t) ==
    /\ task[t].pc = "publish_running"
    /\ NativeUp(task[t].nc)
    /\ published' = Append(published, task[t].name)
    /\ PublishSlot(t)
    /\ UNCHANGED <<db, isInitialized, isInitializing, initError, initPromise, loadedFiles,
                   connections, fileUsage, envVars, calls, faults>>

\* A publication that assigns sharedResultName before the statement settles,
\* so that a rejected statement leaves the name behind.
PublishFailed_NameSet(t) ==
    /\ Fault
    /\ task[t].pc = "publish_running"
    /\ sharedResultName' = task[t].name
    /\ Set(t, Done(task[t], "QueryExecutionError"))
    /\ UNCHANGED <<db, isInitialized, isInitializing, initError, initPromise, loadedFiles,
                   connections, fileUsage, sharedVersion, envVars, calls, published>>

\* The CREATE OR REPLACE statement has rejected: the publication throws.
PublishFailed(t) ==
    /\ Fault
    /\ task[t].pc = "publish_running"
    /\ Set(t, Done(task[t], "QueryExecutionError"))
    /\ UNCHANGED <<storeVars, envVars, calls, published>>

\* ------------------------------------------------- performGlobalCleanup

\* The "Reset state" tail of performGlobalCleanup.
GcReset(t, rec) ==
    /\ db' = 0
    /\ isInitialized' = FALSE
    /\ loadedFiles' = [k \in Keys |-> NoFile]
    /\ fileUsage' = [k \in Keys |-> NoUsage]
    /\ initError' = ""
    /\ Set(t, Done(rec, "ok"))

\* The registered ids the loop of performGlobalCleanup has not reached yet.
GcRest(rec) == {v \in Viewers : connections[v] # 0 /\ Slot(v) \notin rec.seen}

\* performGlobalCleanup from one await to the next: the loop over the registry
\* awaits close() on the next entry of the registry Map.  The Map is iterated
\* live and in insertion order: an entry registered during the loop, also
\* under an id that was visited and deleted meanwhile, is still reached;
\* rec.seen holds the places visited so far.  After the loop the registry is
\* cleared and, with a handle installed, terminate() is awaited, which stops
\* the worker (and with it the catalog) at the call.
GcAdvance(t, rec) ==
    IF GcRest(rec) # {} THEN
        /\ LET v == CHOOSE x \in GcRest(rec) : \A w \in GcRest(rec) : Slot(x) <= Slot(w) IN
              Set(t, [rec EXCEPT !.pc = "gc_closing", !.nc = connections[v],
                                 !.seen = @ \cup {Slot(v)}, !.sent = TRUE])
        /\ UNCHANGED <<db, isInitialized, initError, loadedFiles, connections, fileUsage,
                       engines, tables, leaked>>
    ELSE IF db # 0 THEN
        /\ connections' = [v \in Viewers |-> 0]
        /\ engines' = [engines EXCEPT ![db] = "terminated"]
        /\ tables' = [n \in TableNames |-> NoTable]
        /\ Set(t, [rec EXCEPT !.pc = "gc_terminating", !.h = db, !.sent = TRUE])
        /\ UNCHANGED <<db, isInitialized, initError, loadedFiles, fileUsage>>
    ELSE
        /\ connections' = [v \in Viewers |-> 0]
        /\ GcReset(t, rec)
        /\ UNCHANGED <<engines, tables, leaked>>

\* performGlobalCleanup() called directly.
StartGlobalCleanup(t) ==
    /\ CanStart(t)
    /\ calls' = calls + 1
    /\ GcAdvance(t, [Idle EXCEPT !.op = "performGlobalCleanup"])
    /\ UNCHANGED <<isInitializing, initPromise, sharedResultName, sharedVersion,
                   promises, natives, leaked, faults, published>>

\* cleanup without the `force || connections.value.size === 0` test.
StartCleanup_Unguarded(t, force) ==
    /\ CanStart(t)
    /\ calls' = calls + 1
    /\ GcAdvance(t, [Idle EXCEPT !.op = "cleanup"])
    /\ UNCHANGED <<isInitializing, initPromise, sharedResultName, sharedVersion,
                   promises, natives, leaked, faults, published>>

\* cleanup(force): the teardown runs when forced or when no connection is
\* registered, otherwise the call only logs.
StartCleanup(t, force) ==
    /\ CanStart(t)
    /\ calls' = calls + 1
    /\ LET rec == [Idle EXCEPT !.op = "cleanup"] IN
         IF force \/ \A v \in Viewers : connections[v] = 0
         THEN GcAdvance(t, rec)
         ELSE /\ Set(t, Done(rec, "skipped"))
              /\ UNCHANGED <<db, isInitialized, initError, loadedFiles, connections,
                             fileUsage, engines, tables, leaked>>
    /\ UNCHANGED <<isInitializing, initPromise, sharedResultName, sharedVersion,
                   promises, natives, leaked, faults, published>>

\* close() of one registered connection has resolved (logged) or rejected
\* (warned): the loop goes on either way.
GcClosed(t) ==
    /\ task[t].pc = "gc_closing"
    /\ EngineUp(natives[task[t].nc].eng)
    /\ natives' = [natives EXCEPT ![task[t].nc].open = FALSE]
    /\ GcAdvance(t, task[t])
    /\ UNCHANGED <<isInitializing, initPromise, sharedResultName, sharedVersion,
                   promises, leaked, calls, faults, published>>

\* performGlobalCleanup without the try/catch around close(): the first
\* failing close ends the teardown with the error.
GcCloseFailed_Aborts(t) ==
    /\ Fault
    /\ task[t].pc = "gc_closing"
    /\ Set(t, Done(task[t], "EngineError"))
    /\ UNCHANGED <<storeVars, envVars, calls, published>>

GcCloseFailed(t) ==
    /\ Fault
    /\ task[t].pc = "gc_closing"
    /\ GcAdvance(t, task[t])
    /\ UNCHANGED <<isInitializing, initPromise, sharedResultName, sharedVersion,
                   promises, natives, leaked, calls, published>>

\* terminate() has resolved or rejected (warned): db.value is cleared and the
\* state is reset.
GcTerminated(t) ==
    /\ task[t].pc = "gc_terminating"
    /\ GcReset(t, task[t])
    /\ UNCHANGED <<isInitializing, initPromise, connections, sharedResultName,
                   sharedVersion, envVars, calls, faults, published>>

\* ------------------------------------------------------- specifications

\* The environment: the init attempt's awaited steps.
AttemptSteps ==
    \/ \E a \in 1..Len(promises) : AttemptLoaded(a)
    \/ \E a \in 1..Len(promises) : AttemptInstantiated(a)
    \/ \E a \in 1..Len(promises) : AttemptFailed(a)

CreateSteps ==
    \/ \E t \in Tasks : AfterInit(t)
    \/ \E t \in Tasks : CreateConnected(t)
    \/ \E t \in Tasks : CreateConnectFailed(t)

CloseSteps ==
    \/ \E t \in Tasks : CloseClosed(t)
    \/ \E t \in Tasks : CloseFailed(t)

LoadSteps ==
    \/ \E t \in Tasks : LoadResume(t)
    \/ \E t \in Tasks : LoadFetched(t)
    \/ \E t \in Tasks : LoadFetchFailed(t)
    \/ \E t \in Tasks : LoadRegistered(t)
    \/ \E t \in Tasks : LoadConnected(t)
    \/ \E t \in Tasks : LoadEngineFailed(t)
    \/ \E t \in Tasks : LoadCreated(t)
    \/ \E t \in Tasks : LoadCounted(t)
    \/ \E t \in Tasks : LoadStatementFailed(t)
    \/ \E t \in Tasks : LoadClosed(t)
    \/ \E t \in Tasks : LoadCloseFailed(t)

UnloadSteps ==
    \/ \E t \in Tasks : UnloadConnected(t)
    \/ \E t \in Tasks : UnloadDropped(t)
    \/ \E t \in Tasks : UnloadClosed(t)
    \/ \E t \in Tasks : UnloadEngineFailed(t)

QuerySteps ==
    \/ \E t \in Tasks : QueryReturned(t)
    \/ \E t \in Tasks : QueryFailed(t)

PublishSteps ==
    \/ \E t \in Tasks : Published(t)
    \/ \E t \in Tasks : PublishFailed(t)

CleanupSteps ==
    \/ \E t \in Tasks : GcClosed(t)
    \/ \E t \in Tasks : GcCloseFailed(t)
    \/ \E t \in Tasks : GcTerminated(t)

\* Initialization: callers of initDuckDB, createConnection and loadFile meeting
\* one another and the attempt in flight.
NextInit ==
    \/ AttemptSteps
    \/ \E t \in Tasks : StartInit(t)
    \/ \E t \in Tasks : StartCreate(t, "v1")
    \/ \E t \in Tasks : StartLoad(t, <<"u1", "csv", "tA", "f1">>, "v1")
    \/ CreateSteps
    \/ LoadSteps

SpecInit == Init /\ [][NextInit]_vars

\* File loading: racing and repeated loads of two viewers over two keys.
NextLoad ==
    \/ AttemptSteps
    \/ \E t \in Tasks, c \in LoadCalls : StartLoad(t, c[1], c[2])
    \/ \E t \in Tasks : AfterInit(t)
    \/ LoadSteps

SpecLoad == Init /\ [][NextLoad]_vars

\* Usage bookkeeping: one viewer's connection, its loads under two keys, its
\* close, and unloads.
NextUsage ==
    \/ AttemptSteps
    \/ \E t \in Tasks : StartCreate(t, "v1")
    \/ \E t \in Tasks, inp \in {<<"u1", "csv", "tA", "f1">>, <<"u2", "parquet", "tB", "">>} :
          StartLoad(t, inp, "v1")
    \/ \E t \in Tasks : StartClose(t, "v1")
    \/ \E t \in Tasks, k \in Keys : StartUnload(t, k)
    \/ CleanupViewerFileUsageCall("v1")
    \/ \E k \in Keys : TrackFileUsageCall(k, "v1")
    \/ CreateSteps
    \/ LoadSteps
    \/ CloseSteps
    \/ UnloadSteps

SpecUsage == Init /\ [][NextUsage]_vars

\* Loads that settle: two callers' loads of one key, where every awaited
\* request settles (fairness) and a request to an engine that will never
\* answer rejects.
LiveCalls ==
    {<<(<<"u1", "csv", "tA", "f1">>), "v1">>, <<(<<"u2", "parquet", "tB", "f1">>), "v2">>}

LoadStepsOf(t) ==
    \/ AfterInit(t)
    \/ LoadResume(t)
    \/ LoadFetched(t)
    \/ LoadRegistered(t)
    \/ LoadConnected(t)
    \/ LoadCreated(t)
    \/ LoadCounted(t)
    \/ LoadClosed(t)
    \/ LoadEngineGone(t)

NextLive ==
    \/ AttemptSteps
    \/ \E t \in Tasks, c \in LiveCalls : StartLoad(t, c[1], c[2])
    \/ \E t \in Tasks : AfterInit(t)
    \/ LoadSteps
    \/ \E t \in Tasks : LoadEngineGone(t)

SpecLive ==
    /\ Init
    /\ [][NextLive]_vars
    /\ WF_vars(AttemptSteps)
    /\ \A t \in Tasks : WF_vars(LoadStepsOf(t))

\* Failures of any shape: loads of one key by two viewers, one of them with
\* a file type loadFile does not support, where a request may also reject
\* with a value that carries no message, or with undefined or null.
BareCalls == LiveCalls \cup {<<(<<"u1", "json", "tA", "f1">>), "v1">>}

NextBare ==
    \/ AttemptSteps
    \/ \E t \in Tasks, c \in BareCalls : StartLoad(t, c[1], c[2])
    \/ \E t \in Tasks : AfterInit(t)
    \/ LoadSteps
    \/ \E t \in Tasks : LoadEngineFailedBare(t)
    \/ \E t \in Tasks : LoadEngineFailedNull(t)
    \/ \E t \in Tasks, err \in Messageless : LoadFetchFailedWith(t, err)
    \/ \E t \in Tasks, err \in Messageless : LoadStatementFailedWith(t, err)
    \/ \E t \in Tasks, err \in Messageless : LoadCloseFailedWith(t, err)

SpecBare == Init /\ [][NextBare]_vars

\* File lifecycle: one viewer's connection, loads under two keys, unloads
\* and global teardown.
FileInputs == {<<"u1", "csv", "tA", "f1">>, <<"u2", "parquet", "tB", "">>}

NextFiles ==
    \/ AttemptSteps
    \/ \E t \in Tasks : StartCreate(t, "v1")
    \/ \E t \in Tasks, inp \in FileInputs : StartLoad(t, inp, "v1")
    \/ \E t \in Tasks, k \in Keys : StartUnload(t, k)
    \/ \E t \in Tasks : StartGlobalCleanup(t)
    \/ CreateSteps
    \/ LoadSteps
    \/ UnloadSteps
    \/ CleanupSteps

SpecFiles == Init /\ [][NextFiles]_vars

\* Publication: queries and publications of two viewers, with teardown.
NextPublish ==
    \/ AttemptSteps
    \/ \E t \in Tasks, v \in Viewers : StartCreate(t, v)
    \/ \E t \in Tasks, v \in Viewers : StartClose(t, v)
    \/ \E t \in Tasks, v \in Viewers : StartQuery(t, v)
    \/ \E t \in Tasks, n \in Names, v \in Viewers : StartPublishView(t, n, v)
    \/ \E t \in Tasks, n \in Names, v \in Viewers : StartPublishTable(t, n, v)
    \/ \E t \in Tasks : StartGlobalCleanup(t)
    \/ \E t \in Tasks, force \in BOOLEAN : StartCleanup(t, force)
    \/ CreateSteps
    \/ CloseSteps
    \/ QuerySteps
    \/ PublishSteps
    \/ CleanupSteps

SpecPublish == Init /\ [][NextPublish]_vars

\* Every operation of the store.
Next ==
    \/ \E a \in 1..Len(promises) : AttemptLoaded(a)
    \/ \E a \in 1..Len(promises) : AttemptInstantiated(a)
    \/ \E a \in 1..Len(promises) : AttemptFailed(a)
    \/ \E t \in Tasks : StartInit(t)
    \/ \E t \in Tasks : AfterInit(t)
    \/ \E t \in Tasks, v \in Viewers : StartCreate(t, v)
    \/ \E t \in Tasks : CreateConnected(t)
    \/ \E t \in Tasks : CreateConnectFailed(t)
    \/ \E t \in Tasks, v \in Viewers : StartClose(t, v)
    \/ \E t \in Tasks : CloseClosed(t)
    \/ \E t \in Tasks : CloseFailed(t)
    \/ \E v \in Viewers : CleanupViewerFileUsageCall(v)
    \/ \E k \in Keys, v \in Viewers : TrackFileUsageCall(k, v)
    \/ \E t \in Tasks, inp \in LoadInputs, v \in Viewers : StartLoad(t, inp, v)
    \/ \E t \in Tasks : LoadResume(t)
    \/ \E t \in Tasks : LoadFetched(t)
    \/ \E t \in Tasks : LoadFetchFailed(t)
    \/ \E t \in Tasks : LoadRegistered(t)
    \/ \E t \in Tasks : LoadConnected(t)
    \/ \E t \in Tasks : LoadEngineFailed(t)
    \/ \E t \in Tasks : LoadEngineFailedBare(t)
    \/ \E t \in Tasks : LoadEngineFailedNull(t)
    \/ \E t \in Tasks : LoadEngineGone(t)
    \/ \E t \in Tasks, err \in Messageless : LoadFetchFailedWith(t, err)
    \/ \E t \in Tasks, err \in Messageless : LoadStatementFailedWith(t, err)
    \/ \E t \in Tasks, err \in Messageless : LoadCloseFailedWith(t, err)
    \/ \E t \in Tasks : LoadCreated(t)
    \/ \E t \in Tasks : LoadCounted(t)
    \/ \E t \in Tasks : LoadStatementFailed(t)
    \/ \E t \in Tasks : LoadClosed(t)
    \/ \E t \in Tasks : LoadCloseFailed(t)
    \/ \E t \in Tasks, k \in Keys : StartUnload(t, k)
    \/ \E t \in Tasks : UnloadConnected(t)
    \/ \E t \in Tasks : UnloadDropped(t)
    \/ \E t \in Tasks : UnloadClosed(t)
    \/ \E t \in Tasks : UnloadEngineFailed(t)
    \/ \E t \in Tasks, v \in Viewers : StartQuery(t, v)
    \/ \E t \in Tasks : QueryReturned(t)
    \/ \E t \in Tasks : QueryFailed(t)
    \/ \E t \in Tasks, n \in Names, v \in Viewers : StartPublishView(t, n, v)
    \/ \E t \in Tasks, n \in Names, v \in Viewers : StartPublishTable(t, n, v)
    \/ \E t \in Tasks : Published(t)
    \/ \E t \in Tasks : PublishFailed(t)
    \/ \E t \in Tasks : StartGlobalCleanup(t)
    \/ \E t \in Tasks, force \in BOOLEAN : StartCleanup(t, force)
    \/ \E t \in Tasks : GcClosed(t)
    \/ \E t \in Tasks : GcCloseFailed(t)
    \/ \E t \in Tasks : GcTerminated(t)

Spec == Init /\ [][Next]_vars

\* ------------------------------------------------------------------ claims

\* initDuckDB has returned normally to caller t.
InitReturned(t) ==
    task[t].pc = "done" /\ task[t].op = "init" /\ task[t].res = "ok"

Rejected(a) == promises[a].state = "rejected"

\* C1: whenever initDuckDB has returned normally to a caller, and whenever
\* createConnection or loadFile is past its initialization step, the handle
\* the caller got (the installed one) has finished instantiation.
C1_HandleInstantiated ==
    \A t \in Tasks :
        /\ InitReturned(t) => EngineUp(task[t].h)
        /\ task[t].pc = "create_connecting" => EngineUp(task[t].h)
        /\ task[t].pc = "load_fetching" => EngineUp(db)

\* C2: callers that meet on an uninitialized manager (no attempt has failed)
\* share one attempt and one engine construction, and every caller that has
\* returned holds that one handle, which is the installed one.
C2_SingleConstruction ==
    (\A a \in 1..Len(promises) : ~Rejected(a)) =>
        /\ Len(promises) <= 1
        /\ Len(engines) <= 1
        /\ \A t \in Tasks :
              /\ InitReturned(t) => Len(engines) = 1 /\ task[t].h = 1 /\ db = 1
              /\ task[t].pc = "create_connecting" => task[t].h = 1

\* C2 witness: one caller has returned the handle while the other, which
\* waited for the same attempt, is about to resume; one engine was constructed.
C2_Witness ==
    /\ InitReturned("t1") /\ task["t1"].h = 1
    /\ task["t2"].pc = "init_wait" /\ task["t2"].att = 1
    /\ promises[1].state = "resolved"
    /\ Len(engines) = 1

\* C6: once a failed attempt has settled, initError is set, no handle is
\* installed, isInitialized is false and no attempt is marked in flight; no
\* caller that invoked initDuckDB or createConnection during that attempt goes
\* on with its handle; and a later attempt starts with initError cleared.
C6_FailureReachesEveryCaller ==
    /\ \A a \in 1..Len(promises) :
          Rejected(a) /\ a = Len(promises) =>
              initError # "" /\ db = 0 /\ ~isInitialized /\ initPromise = 0
    /\ \A a \in 1..Len(promises) :
          Rejected(a) /\ promises[a].eng # 0 =>
              \A t \in Tasks :
                  /\ ~(InitReturned(t) /\ task[t].h = promises[a].eng)
                  /\ ~(task[t].pc = "create_connecting" /\ task[t].h = promises[a].eng)
    /\ \A a \in 1..Len(promises) :
          promises[a].state = "loading" => initError = "" /\ initPromise = a

\* The stable key of a loadFile call c = <<input, viewer>>.
KeyOf(c) == stableKey(c[1][4], c[1][1])

\* The members of a usage set (none when the key has no set).
Users(k) == IF fileUsage[k] = NoUsage THEN {} ELSE fileUsage[k]

\* C3: a loadFile for a key whose entry is ready returns the table name that
\* entry records, whatever url, kind and tableName it was given, without a
\* fetch or an engine statement, leaves every LoadedFile entry as it is and
\* adds the calling viewer to the key's usage set.
C3_Deduplication ==
    [][\A t \in Tasks : \A c \in LoadCalls :
          StartLoad(t, c[1], c[2]) /\ EntryReady(loadedFiles[KeyOf(c)]) =>
              /\ task'[t].pc = "done" /\ task'[t].res = "ok"
              /\ task'[t].name = loadedFiles[KeyOf(c)].tableName
              /\ ~task'[t].fetched /\ ~task'[t].sent
              /\ loadedFiles' = loadedFiles
              /\ tables' = tables
              /\ \A k \in Keys :
                    fileUsage'[k] =
                        IF k = KeyOf(c) /\ c[2] # ""
                        THEN Users(k) \cup {c[2]}
                        ELSE fileUsage[k]]_vars

\* C3 witness: v1 loaded key f1 as table tA; v2 asked for the same key with
\* another url, kind and table name and got tA without a fetch; both use f1.
C3_Witness ==
    /\ task["t1"].pc = "done" /\ task["t1"].op = "load" /\ task["t1"].res = "ok"
    /\ task["t1"].key = "f1" /\ task["t1"].id = "v1" /\ task["t1"].fetched
    /\ task["t2"].pc = "done" /\ task["t2"].op = "load" /\ task["t2"].res = "ok"
    /\ task["t2"].key = "f1" /\ task["t2"].id = "v2" /\ ~task["t2"].fetched
    /\ task["t2"].name = "tA" /\ task["t2"].prev = "ready"
    /\ fileUsage["f1"] = {"v1", "v2"}

\* Caller t's loadFile or executeQuery fails in this step.
Fails(t) ==
    /\ task'[t] # task[t]
    /\ task'[t].pc = "done"
    /\ task'[t].op \in {"load", "query"}
    /\ task'[t].res # "ok"

\* C4: a loadFile or executeQuery call that fails changes no entry of the
\* connection registry and no LoadedFile entry that another call has made
\* ready.
C4_FailureContained ==
    [][\A t \in Tasks :
          Fails(t) /\ ~(task[t].pc = "load_closing" /\ task[t].res = "ok") =>
              /\ connections' = connections
              /\ \A k \in Keys :
                    EntryReady(loadedFiles[k]) => loadedFiles'[k] = loadedFiles[k]]_vars

\* Caller t's loadFile fails in this step during fetch, registration or
\* import (not after it has marked the entry ready).
LoadFails(t) ==
    /\ task[t].op = "load"
    /\ task[t].pc \in {"load_fetching", "load_registering", "load_connecting", "load_closing"}
    /\ ~(task[t].pc = "load_closing" /\ task[t].res = "ok")
    /\ task'[t].pc = "done"

\* C5: a loadFile failing during fetch, registration or import leaves its
\* key's entry failed with the error, throws, alters no other key's entry and
\* no usage set, and has not tracked its viewer; a loadFile that finds its
\* key's entry failed does not short-circuit but starts the load again, the
\* entry going to pending and, on success, to ready.
C5_FailureIsolationAndRetry ==
    [][\A t \in Tasks :
          /\ LoadFails(t) =>
                /\ task'[t].res # "ok"
                /\ EntryState(loadedFiles'[task[t].key]) = "failed"
                /\ loadedFiles'[task[t].key].error = task'[t].res
                /\ \A k \in Keys \ {task[t].key} : loadedFiles'[k] = loadedFiles[k]
                /\ fileUsage' = fileUsage
                /\ ~task'[t].tracked
          /\ task'[t] # task[t] /\ task'[t].op = "load" =>
                \A k \in Keys \ {task'[t].key} :
                    loadedFiles'[k] = loadedFiles[k] /\ fileUsage'[k] = fileUsage[k]
          /\ \A c \in LoadCalls :
                StartLoad(t, c[1], c[2]) /\ EntryState(loadedFiles[KeyOf(c)]) = "failed" =>
                    /\ task'[t].pc \in {"load_fetching", "init_wait", "init_returned"}
                    /\ task'[t].pc = "load_fetching" =>
                          EntryState(loadedFiles'[KeyOf(c)]) = "pending"
          /\ task[t].pc = "load_counting" /\ task'[t].pc = "load_closing" /\ task'[t].res = "ok" =>
                EntryState(loadedFiles'[task[t].key]) = "ready"]_vars

\* C5 witness: a load of key f1 failed; the retry, started on the failed
\* entry, fetched again and has made the entry ready.
C5_Witness ==
    /\ task["t1"].pc = "done" /\ task["t1"].op = "load" /\ task["t1"].key = "f1"
    /\ task["t1"].res = "Failed to fetch file"
    /\ task["t2"].pc = "done" /\ task["t2"].op = "load" /\ task["t2"].key = "f1"
    /\ task["t2"].res = "ok" /\ task["t2"].prev = "failed" /\ task["t2"].fetched
    /\ EntryState(loadedFiles["f1"]) = "ready"

\* Caller t's closeConnection completes without an error in this step.
CloseCompletes(t) ==
    /\ task'[t] # task[t]
    /\ task'[t].op = "close" /\ task'[t].pc = "done" /\ task'[t].res = "ok"

\* C7 as stated: once closeConnection(C) has completed, C is a member of no
\* usage set, and the close has changed no LoadedFile entry and dropped no
\* table.
C7_CloseClearsUsage ==
    [][\A t \in Tasks :
          CloseCompletes(t) =>
              /\ \A k \in Keys : task'[t].id \notin fileUsage'[k]
              /\ loadedFiles' = loadedFiles
              /\ tables' = tables]_vars

\* C7: a closeConnection(C) that finds C in the connection registry and
\* whose native close resolves leaves C a member of no usage set; a
\* closeConnection for an id not in the registry is a no-op that leaves the
\* usage sets as they are; no step of closeConnection changes a LoadedFile
\* entry or drops a table, and an entry is removed only by unloadFile.
C7_UsageBookkeeping ==
    [][/\ \A t \in Tasks :
            /\ task[t].pc = "close_closing" /\ task'[t].pc = "done" /\ task'[t].res = "ok" =>
                  /\ \A k \in Keys : task[t].id \notin fileUsage'[k]
                  /\ connections'[task[t].id] = 0
            /\ \A v \in Viewers :
                  StartClose(t, v) /\ connections[v] = 0 =>
                      task'[t].pc = "done" /\ fileUsage' = fileUsage
            /\ (\E v \in Viewers : StartClose(t, v)) \/ CloseClosed(t) \/ CloseFailed(t) =>
                  loadedFiles' = loadedFiles /\ tables' = tables
       /\ \A k \in Keys :
            loadedFiles[k] # NoFile /\ loadedFiles'[k] = NoFile =>
                \E t \in Tasks :
                    \/ StartUnload(t, k)
                    \/ (UnloadClosed(t) \/ UnloadEngineFailed(t)) /\ task[t].key = k]_vars

\* C7 witness: v1 opened a connection, loaded both files and closed the
\* connection: both usage sets are empty, both entries are ready and both
\* tables are still in the engine.
C7_Witness ==
    /\ \E t \in Tasks : /\ task[t].pc = "done" /\ task[t].op = "close"
                         /\ task[t].id = "v1" /\ task[t].res = "ok" /\ task[t].sent
    /\ connections["v1"] = 0
    /\ \A k \in Keys : EntryReady(loadedFiles[k]) /\ fileUsage[k] = {}
    /\ loadedFiles["f1"].tableName = "tA" /\ loadedFiles["u2"].tableName = "tB"
    /\ tables["tA"] # NoTable /\ tables["tB"] # NoTable

\* Caller t's publication completes in this step.
Publishes(t) ==
    /\ task[t].pc = "publish_running"
    /\ task'[t].pc = "done" /\ task'[t].res = "ok"

\* C8: sharedVersion never decreases; a publishViewFromQuery or
\* publishTableFromQuery that completes raises it by exactly 1 and sets
\* sharedResultName to its name; no other step of any operation changes
\* the slot.
C8_PublicationMonotonic ==
    [][/\ sharedVersion' >= sharedVersion
       /\ \A t \in Tasks :
            Publishes(t) => /\ sharedVersion' = sharedVersion + 1
                            /\ sharedResultName' = task[t].name
       /\ (\A t \in Tasks : ~Publishes(t)) =>
            UNCHANGED <<sharedResultName, sharedVersion>>]_vars

\* C8 witness: publications named n1 then n2 have completed, the slot is
\* {name: n2, version: 0 + 2}.
C8_Witness ==
    /\ published = <<"n1", "n2">>
    /\ sharedResultName = "n2"
    /\ sharedVersion = 2

\* C9: in every reachable state the slot's version is the number of
\* publication statements that have succeeded and its name is the name of
\* the last of them (unset when there is none): the name and the version
\* change together after the statement, and a publication whose statement
\* failed has changed neither.
C9_PublicationAtomic ==
    /\ sharedVersion = Len(published)
    /\ sharedResultName = IF published = <<>> THEN "" ELSE published[Len(published)]

\* C9 witness: n1 was published, then a publication named n2 failed on its
\* statement while another publisher was still waiting for its own.
C9_Witness ==
    /\ task["t1"].pc = "done" /\ task["t1"].op \in {"publishView", "publishTable"}
    /\ task["t1"].name = "n2" /\ task["t1"].res = "QueryExecutionError"
    /\ task["t2"].pc = "publish_running"
    /\ published = <<"n1">>
    /\ sharedResultName = "n1" /\ sharedVersion = 1

\* C10: executeQuery, publishViewFromQuery and publishTableFromQuery called
\* with an id that is not in the connection registry throw "Connection not
\* found" at once, send no statement, and leave the connection registry,
\* LoadedFile, FileUsage, the shared slot and the engine as they are.
C10_ConnectionNotFound ==
    [][\A t \in Tasks : \A v \in Viewers :
          /\ \/ StartQuery(t, v)
             \/ \E n \in Names : StartPublishView(t, n, v) \/ StartPublishTable(t, n, v)
          /\ connections[v] = 0
          => /\ task'[t].pc = "done"
             /\ task'[t].res = "ConnectionNotFound"
             /\ ~task'[t].sent
             /\ UNCHANGED <<connections, loadedFiles, fileUsage, sharedResultName,
                            sharedVersion, natives, tables, published>>]_vars

\* C10 witness: after v1's connection was opened and closed, a query and a
\* publication on the stale id v1 have both thrown without sending anything.
C10_Witness ==
    /\ task["t1"].pc = "done" /\ task["t1"].op = "query" /\ task["t1"].id = "v1"
    /\ task["t1"].res = "ConnectionNotFound" /\ ~task["t1"].sent
    /\ task["t2"].pc = "done" /\ task["t2"].op \in {"publishView", "publishTable"}
    /\ task["t2"].id = "v1"
    /\ task["t2"].res = "ConnectionNotFound" /\ ~task["t2"].sent
    /\ Len(natives) = 1 /\ ~natives[1].open
    /\ connections["v1"] = 0

\* C11: in every reachable state every id in the connection registry
\* references a native connection that is still open.
C11_RegistryHoldsOpenConnections ==
    \A v \in Viewers :
        connections[v] # 0 => natives[connections[v]].open

\* Caller t's performGlobalCleanup (called directly or through cleanup)
\* completes in this step while no other call is in flight.
GcCompletesAlone(t) ==
    /\ \/ StartGlobalCleanup(t)
       \/ \E force \in BOOLEAN : StartCleanup(t, force)
       \/ GcClosed(t) \/ GcCloseFailed(t) \/ GcTerminated(t)
    /\ task'[t].pc = "done" /\ task'[t].res = "ok"
    /\ \A u \in Tasks \ {t} : task[u].pc \in {"idle", "done"}

\* C12: when performGlobalCleanup completes with no other call in flight,
\* the manager's state is that of a freshly created manager: no handle, not
\* initialized, no init error, the three registries empty and the shared
\* slot at {name: null, version: 0}.
C12_CleanupRestoresFresh ==
    [][\A t \in Tasks :
          GcCompletesAlone(t) =>
              /\ db' = 0 /\ ~isInitialized' /\ ~isInitializing'
              /\ initError' = "" /\ initPromise' = 0
              /\ \A v \in Viewers : connections'[v] = 0
              /\ \A k \in Keys : loadedFiles'[k] = NoFile /\ fileUsage'[k] = NoUsage
              /\ sharedResultName' = "" /\ sharedVersion' = 0]_vars

\* Some connection is registered.
AnyRegistered == \E v \in Viewers : connections[v] # 0

\* What performGlobalCleanup does up to its first await, as seen on caller
\* t's step: with a connection registered it awaits the close of one of
\* them and changes nothing yet; with none and a handle installed it clears
\* the registry and awaits terminate(); with neither it resets the state and
\* returns.
GcFirstStep(t) ==
    IF AnyRegistered THEN
        /\ task'[t].pc = "gc_closing"
        /\ \E v \in Viewers : /\ connections[v] # 0
                              /\ task'[t].nc = connections[v]
                              /\ task'[t].seen = {Slot(v)}
        /\ UNCHANGED <<storeVars, envVars>>
    ELSE IF db # 0 THEN
        /\ task'[t].pc = "gc_terminating" /\ task'[t].h = db
        /\ engines' = [engines EXCEPT ![db] = "terminated"]
        /\ UNCHANGED <<db, isInitialized, loadedFiles, fileUsage, connections, natives>>
    ELSE
        /\ task'[t].pc = "done" /\ task'[t].res = "ok"
        /\ db' = 0 /\ ~isInitialized' /\ initError' = ""
        /\ \A k \in Keys : loadedFiles'[k] = NoFile /\ fileUsage'[k] = NoUsage
        /\ UNCHANGED <<connections, envVars>>

\* C13: cleanup() without force while a connection is registered returns
\* without closing a connection, terminating the engine or changing a
\* registry; cleanup(true), and cleanup() with no connection registered,
\* do what performGlobalCleanup does.
C13_CleanupGuard ==
    [][\A t \in Tasks :
          /\ StartCleanup(t, FALSE) /\ AnyRegistered =>
                /\ task'[t].pc = "done" /\ task'[t].res = "skipped" /\ ~task'[t].sent
                /\ UNCHANGED <<storeVars, envVars>>
          /\ \A force \in BOOLEAN :
                StartCleanup(t, force) /\ (force \/ ~AnyRegistered) => GcFirstStep(t)
          /\ StartGlobalCleanup(t) => GcFirstStep(t)]_vars

\* C13 witness: with a connection registered one caller's cleanup() was
\* skipped; a forced cleanup then closed the connection and terminated the
\* engine.
C13_Witness ==
    \E t, u \in Tasks :
        /\ task[t].pc = "done" /\ task[t].op = "cleanup" /\ task[t].res = "skipped"
        /\ task[u].pc = "done" /\ task[u].op = "cleanup" /\ task[u].res = "ok"
        /\ task[u].sent
        /\ Len(natives) = 1 /\ ~natives[1].open
        /\ engines = <<"terminated">>
        /\ db = 0 /\ ~AnyRegistered

\* C14: outside performGlobalCleanup and cleanup, a call whose network or
\* engine call has failed does not return normally: the step in which the
\* failure reaches caller t leaves t with an error to throw.
C14_FailuresPropagate ==
    [][\A t \in Tasks :
          /\ faults' = faults + 1
          /\ task'[t] # task[t]
          /\ task'[t].op \notin {"cleanup", "performGlobalCleanup"}
          => task'[t].res \notin {"ok", ""}]_vars

\* Key k has no entry in either registry after the step, and the entries of
\* the other keys are as before.
OnlyRemoved(k) ==
    /\ loadedFiles'[k] = NoFile /\ fileUsage'[k] = NoUsage
    /\ \A j \in Keys \ {k} : loadedFiles'[j] = loadedFiles[j] /\ fileUsage'[j] = fileUsage[j]

\* Caller t's performGlobalCleanup reaches its "Reset state" tail in this step.
GcResets(t) ==
    /\ StartGlobalCleanup(t) \/ GcClosed(t) \/ GcCloseFailed(t) \/ GcTerminated(t)
    /\ task'[t].pc = "done"

\* C15: unloadFile(k) for a key with an entry sends DROP TABLE IF EXISTS
\* for the table name the entry records, and when it returns neither
\* registry has an entry for k, whatever the usage set held; for a key
\* without an entry it returns at once without an error and without a
\* statement; in both cases the other keys' entries are unchanged.  An
\* entry is removed only by unloadFile and performGlobalCleanup.
C15_UnloadRemovesEntries ==
    [][/\ \A t \in Tasks :
            /\ \A k \in Keys :
                  StartUnload(t, k) =>
                      IF loadedFiles[k] # NoFile /\ db # 0
                      THEN /\ task'[t].pc = "unload_connecting"
                           /\ task'[t].name = loadedFiles[k].tableName
                           /\ UNCHANGED <<loadedFiles, fileUsage>>
                      ELSE /\ task'[t].pc = "done" /\ task'[t].res = "ok"
                           /\ ~task'[t].sent
                           /\ OnlyRemoved(k)
            /\ UnloadDropped(t) =>
                  /\ tables'[task[t].name] = NoTable
                  /\ \A n \in TableNames \ {task[t].name} : tables'[n] = tables[n]
                  /\ UNCHANGED <<loadedFiles, fileUsage>>
            /\ task[t].pc \in {"unload_connecting", "unload_dropping", "unload_closing"}
               /\ task'[t].pc = "done" =>
                  task'[t].res = "ok" /\ OnlyRemoved(task[t].key)
       /\ \A k \in Keys :
            loadedFiles[k] # NoFile /\ loadedFiles'[k] = NoFile =>
                \E t \in Tasks :
                    \/ StartUnload(t, k)
                    \/ (UnloadClosed(t) \/ UnloadEngineFailed(t)) /\ task[t].key = k
                    \/ GcResets(t)]_vars

\* C15 witness: f1 and u2 were loaded by v1; unloadFile(f1) has dropped
\* table tA and removed both entries of f1, u2 is as it was.
C15_Witness ==
    /\ \E t \in Tasks : /\ task[t].pc = "done" /\ task[t].op = "unload"
                         /\ task[t].key = "f1" /\ task[t].name = "tA" /\ task[t].sent
    /\ loadedFiles["f1"] = NoFile /\ fileUsage["f1"] = NoUsage
    /\ tables["tA"] = NoTable
    /\ EntryReady(loadedFiles["u2"]) /\ fileUsage["u2"] = {"v1"}
    /\ tables["tB"] # NoTable
    /\ leaked = 0

\* C16: closeConnection with an id that is not in the registry (never
\* issued, or already closed) returns at once without an error, calls no
\* native close and leaves the store and the engine as they are; a close
\* that has resolved has removed its id, so a second closeConnection(id)
\* is such a call.
C16_IdempotentClose ==
    [][\A t \in Tasks :
          /\ \A v \in Viewers :
                StartClose(t, v) /\ connections[v] = 0 =>
                    /\ task'[t].pc = "done" /\ task'[t].res = "ok"
                    /\ ~task'[t].sent
                    /\ UNCHANGED <<storeVars, envVars>>
          /\ CloseClosed(t) => connections'[task[t].id] = 0]_vars

\* C16 witness: v1's connection was closed by one closeConnection(v1), whose
\* native close resolved; another closeConnection(v1) found no entry and
\* returned without a native close.
C16_Witness ==
    \E t, u \in Tasks :
        /\ task[t].pc = "done" /\ task[t].op = "close" /\ task[t].id = "v1"
        /\ task[t].res = "ok" /\ task[t].sent
        /\ task[u].pc = "done" /\ task[u].op = "close" /\ task[u].id = "v1"
        /\ task[u].res = "ok" /\ ~task[u].sent
        /\ natives = <<[eng |-> 1, open |-> FALSE, at |-> 1]>>
        /\ connections["v1"] = 0

\* Caller t's closeConnection takes a step.
CloseStep(t) ==
    (\E v \in Viewers : StartClose(t, v)) \/ CloseClosed(t) \/ CloseFailed(t)

\* C17: no step of closeConnection(A) changes the registry entry of another
\* id B or the native connection B is registered with, and an executeQuery
\* on a registered id is sent on the native connection the registry holds
\* for it.
C17_ConnectionIsolation ==
    [][\A t \in Tasks :
          /\ CloseStep(t) =>
                \A b \in Viewers \ {task'[t].id} :
                    /\ connections'[b] = connections[b]
                    /\ connections[b] # 0 =>
                          natives'[connections[b]] = natives[connections[b]]
          /\ \A b \in Viewers :
                StartQuery(t, b) /\ connections[b] # 0 =>
                    /\ task'[t].pc = "query_running"
                    /\ task'[t].nc = connections[b]]_vars

\* C17 witness: v1 and v2 were registered, closeConnection(v1) has closed
\* v1's native connection and removed v1; a query on v2 is running on v2's
\* native connection, which is open.
C17_Witness ==
    \E t, u \in Tasks :
        /\ task[t].pc = "done" /\ task[t].op = "close" /\ task[t].id = "v1"
        /\ task[t].res = "ok" /\ task[t].sent
        /\ task[u].pc = "query_running" /\ task[u].id = "v2"
        /\ connections["v1"] = 0 /\ connections["v2"] # 0
        /\ task[u].nc = connections["v2"]
        /\ natives[connections["v2"]].open
        /\ \E n \in 1..Len(natives) : n # connections["v2"] /\ ~natives[n].open

\* The changes of state the per-entry state machine allows.
EntryMoves ==
    {<<"absent", "pending">>, <<"pending", "ready">>,
     <<"pending", "failed">>, <<"failed", "pending">>}

\* C18: an entry changes only by absent -> pending, pending -> ready,
\* pending -> failed, failed -> pending, or by its removal; a pending
\* entry is not rewritten and no loadFile starts a fetch for a key whose
\* entry is pending; a ready entry never goes to pending or failed.
C18_EntryStateMachine ==
    [][/\ \A k \in Keys :
            \/ loadedFiles'[k] = loadedFiles[k]
            \/ loadedFiles'[k] = NoFile
            \/ <<EntryState(loadedFiles[k]), EntryState(loadedFiles'[k])>> \in EntryMoves
       /\ \A t \in Tasks :
            task[t].pc # "load_fetching" /\ task'[t].pc = "load_fetching" =>
                EntryState(loadedFiles[task'[t].key]) # "pending"]_vars

\* The engine instances (workers) constructed and not terminated, and the
\* initialization attempts in flight.
LiveEngines == {e \in 1..Len(engines) : engines[e] # "terminated"}
AttemptsInFlight ==
    {a \in 1..Len(promises) : promises[a].state \in {"loading", "instantiating"}}

\* C19: in every reachable state at most one engine instance has been
\* constructed and not yet terminated, and at most one initialization
\* attempt is in flight.
C19_SingleEngineInstance ==
    /\ Cardinality(LiveEngines) <= 1
    /\ Cardinality(AttemptsInFlight) <= 1

\* C20: a loadFile that sees its key's entry ready at its check never
\* starts a fetch; a loadFile that sees it absent, pending or failed (with
\* the engine ready) starts its own fetch at once, whatever other load of
\* the key is in flight.
C20_OnlyReadyShortCircuits ==
    [][\A t \in Tasks :
          /\ task'[t].fetched => task'[t].prev # "ready"
          /\ \A c \in LoadCalls :
                StartLoad(t, c[1], c[2]) /\ isReady =>
                    (task'[t].pc = "load_fetching") = ~EntryReady(loadedFiles[KeyOf(c)])]_vars

\* C20 witness: two loadFile calls for key f1, neither of which saw a ready
\* entry, have each fetched and imported: both returned, after two fetches
\* for one key.
C20_Witness ==
    /\ \A t \in Tasks :
          /\ task[t].pc = "done" /\ task[t].op = "load" /\ task[t].key = "f1"
          /\ task[t].res = "ok" /\ task[t].fetched /\ task[t].sent
          /\ task[t].prev \in {"absent", "pending"}
    /\ task["t1"].name = "tA" /\ task["t2"].name = "tB"
    /\ tables["tA"] # NoTable /\ tables["tB"] # NoTable
    /\ calls = 2
    /\ EntryReady(loadedFiles["f1"])

\* Caller t has a loadFile call in flight.
LoadInFlight(t) == task[t].op = "load" /\ task[t].pc \notin {"idle", "done"}

\* C21: when every awaited request settles, every loadFile call in flight
\* eventually returns or throws, and an entry that is pending eventually
\* is not pending any more.
C21_LoadsSettle ==
    /\ \A t \in Tasks : LoadInFlight(t) ~> (task[t].pc = "done")
    /\ \A k \in Keys :
          (EntryState(loadedFiles[k]) = "pending") ~> (EntryState(loadedFiles[k]) # "pending")

\* C21 witness: a loadFile that found the entry of f1 pending (another
\* call's load in flight) has fetched, imported and returned, and the
\* entry is ready.
C21_Witness ==
    \E t \in Tasks :
        /\ task[t].pc = "done" /\ task[t].op = "load" /\ task[t].key = "f1"
        /\ task[t].prev = "pending" /\ task[t].fetched /\ task[t].res = "ok"
        /\ EntryState(loadedFiles["f1"]) = "ready"
        /\ \A u \in Tasks : ~LoadInFlight(u)

\* C22: executeQuery on a registered id hands its statement to the native
\* connection registered for that id in the step of the call itself (no
\* suspension between the lookup and the native query call), and the step
\* touches no other caller's statement in flight, so the statements of one
\* id reach its native connection in the order of the calls.
C22_QueryOrder ==
    [][\A t \in Tasks : \A v \in Viewers :
          StartQuery(t, v) /\ connections[v] # 0 =>
              /\ task'[t].pc = "query_running"
              /\ task'[t].sent
              /\ task'[t].nc = connections[v]
              /\ \A u \in Tasks \ {t} : task'[u] = task[u]
              /\ UNCHANGED <<connections, natives>>]_vars

\* C22 witness: two executeQuery calls on v1 are in flight, both handed to
\* the one open native connection registered for v1.
C22_Witness ==
    /\ connections["v1"] # 0
    /\ natives[connections["v1"]].open
    /\ \A t \in Tasks :
          /\ task[t].pc = "query_running" /\ task[t].id = "v1"
          /\ task[t].nc = connections["v1"] /\ task[t].sent

\* Caller t's teardown takes a step.
GcStep(t) ==
    \/ StartGlobalCleanup(t)
    \/ StartCleanup(t, TRUE)
    \/ StartCleanup(t, FALSE) /\ ~AnyRegistered
    \/ GcClosed(t) \/ GcCloseFailed(t) \/ GcTerminated(t)

\* C23: a close() that rejects in performGlobalCleanup does not end the
\* teardown: the loop goes on to a registered connection not visited yet
\* while there is one; the loop ends only when every registered connection
\* has been visited, and then the registry is cleared; the teardown ends
\* without an error, with the handle removed and the file registries
\* cleared, also when terminate() rejects.
C23_BestEffortTeardown ==
    [][\A t \in Tasks :
          GcStep(t) =>
              /\ task'[t].res \in {"", "ok"}
              /\ task'[t].pc \in {"gc_closing", "gc_terminating", "done"}
              /\ task'[t].pc = "gc_closing" =>
                    /\ task'[t].seen \ task[t].seen # {}
                    /\ \A s \in task'[t].seen \ task[t].seen :
                          \E v \in Viewers : /\ connections[v] # 0 /\ Slot(v) = s
                                              /\ task'[t].nc = connections[v]
              /\ task'[t].pc # "gc_closing" /\ task[t].pc # "gc_terminating" =>
                    /\ \A v \in Viewers : connections[v] # 0 => Slot(v) \in task[t].seen
                    /\ \A v \in Viewers : connections'[v] = 0
              /\ task'[t].pc = "done" =>
                    /\ task'[t].res = "ok"
                    /\ db' = 0 /\ ~isInitialized' /\ initError' = ""
                    /\ \A k \in Keys : loadedFiles'[k] = NoFile /\ fileUsage'[k] = NoUsage]_vars

\* C23 witness: two connections were registered; in the teardown the close
\* of one of them rejected (its native connection is still open), the
\* other was closed, the engine was terminated and the teardown returned
\* with everything cleared.
C23_Witness ==
    /\ \E t \in Tasks : /\ task[t].pc = "done" /\ task[t].res = "ok"
                         /\ task[t].op \in {"cleanup", "performGlobalCleanup"}
    /\ \A t \in Tasks : task[t].pc \in {"idle", "done"}
    /\ calls = 3 /\ faults = 1
    /\ Len(natives) = 2
    /\ \E n, m \in 1..2 : natives[n].open /\ ~natives[m].open
    /\ engines = <<"terminated">>
    /\ db = 0 /\ ~AnyRegistered

\* C24: in every reachable state isInitialized implies that a handle is
\* installed, so isReady is never true without an engine.
C24_InitializedHasHandle ==
    isInitialized => db # 0

\* A teardown is in progress.
TeardownInProgress == \E t \in Tasks : task[t].pc \in {"gc_closing", "gc_terminating"}

\* C25: whenever no handle is installed and no teardown is in progress, no
\* connection is registered and no LoadedFile entry is ready.
C25_NoHandleNoResources ==
    db = 0 /\ ~TeardownInProgress =>
        /\ \A v \in Viewers : connections[v] = 0
        /\ \A k \in Keys : ~EntryReady(loadedFiles[k])

\* C26: every ready entry names a table that exists in the engine and holds
\* the file that was imported for that entry.
C26_ReadyEntryOwnsTable ==
    \A k \in Keys :
        EntryReady(loadedFiles[k]) =>
            tables[loadedFiles[k].tableName] = loadedFiles[k].fileUrl

\* C27: every native connection that createConnection opened on a running
\* engine and that is not closed yet is referenced by the registry.
C27_OpenConnectionsReachable ==
    \A n \in 1..Len(natives) :
        natives[n].open /\ EngineUp(natives[n].eng) =>
            \E v \in Viewers : connections[v] = n

\* C28: a loadFile by consumer C that was in flight when closeConnection(C)
\* closed C's connection and returned does not add C to the usage set of its
\* key when it completes.
C28_ClosedConsumerNotTracked ==
    [][\A t \in Tasks :
          LoadCounted(t) /\ task[t].stale /\ task[t].id \notin fileUsage[task[t].key] =>
              task[t].id \notin fileUsage'[task[t].key]]_vars

\* C29: no loadFile or unloadFile call that has settled has left its
\* temporary connection open.
C29_TemporaryConnectionsClosed == leaked = 0

\* C30: whatever a failing loadFile threw, the entry its catch has written
\* is not ready: isFileLoaded(key) is false when the call has thrown.
C30_FailedEntryNotReady ==
    [][\A t \in Tasks :
          LoadInFlight(t) /\ task'[t].pc = "done" /\ task'[t].res # "ok" =>
              ~EntryReady(loadedFiles'[task[t].key])]_vars

====
